---- MODULE Spec2Model ----
(***************************************************************************)
(* A model of simprof: the Profiler registry (src/lib/simple-profiler.js)  *)
(* and ProfilerBlock (src/lib/profiler-block.js, lines 1-110).             *)
(*                                                                         *)
(* Objects are modelled by their place in the heap: a Profiler instance by *)
(* its namespace (only the instance registered in global.simpleProfiler is *)
(* reachable by callers), a ProfilerBlock by <<namespace, id>> (id -1 is   *)
(* the instance's disabledBlock), an aggregate by <<namespace, name>>.     *)
(* Durations are integer milliseconds; avg and std are kept exact (avg as  *)
(* a reduced fraction, std as the square root of a reduced fraction), so   *)
(* IEEE rounding is not modelled.                                          *)
(***************************************************************************)
EXTENDS Integers, Sequences, FiniteSets, TLC

VARIABLES
    isEnabled,       \* global.simpleProfiler[isEnabledSymbol]
    simpleProfiler,  \* global.simpleProfiler: namespace -> registered instance
    staticRef,       \* Profiler.stats/events/warnings[ns]: whose tables they are
    blocks,          \* the ProfilerBlock objects: <<ns, id>> -> fields
    emitted,         \* every EventEmitter#emit call made by the library, in order
    last,            \* the last call made by the caller and what it returned
    folded,          \* history: the durations folded into each aggregate, in order
    wrapped          \* Profiler#wrap and wrappedEnd: promises, closures, fn calls

vars == <<isEnabled, simpleProfiler, staticRef, blocks, emitted, last, folded, wrapped>>

----------------------------------------------------------------------------
(* Bounds of the model *)

\* calls that change profiling state (a begin that creates a block, an
\* execution of ProfilerBlock#end), over all namespaces
MaxCalls == 3
MaxRegistryCalls == 2            \* the same, with two namespaces
MaxOverlapCalls == 4             \* the same, where blocks of one name overlap
MaxWrapCalls == 4                \* the same, where calls go through wrap
MaxWrappedEndCalls == 3          \* the same, where blocks end through wrappedEnd
MaxPromises == 2                 \* promises handed to or returned through wrap
MaxQueryCalls == 3               \* the same, where getStats and dumpStats are called
MaxHiddenCalls == 3              \* the same, where a caller's block is named 'DISABLED'
MaxBufferCalls == 4              \* the same, after the buffers have filled
MaxWarnCalls == 4                \* the same, after the preloaded begin/end pairs
PreloadCount == 98               \* begin/end pairs made before the warning policy is watched
PreloadOnes == 27                \* how many of them took 1 ms (the others 0 ms)

disabledBlockName == "DISABLED"
\* The code uses clock readings only through endedOn - startedOn, so every
\* block starts at the same reading and the reading at end varies.
StartTimes == {1}
Times == {0, 1, 2}

(* Program constants *)
BufferSize == 10                 \* Array(10)
WarnMinCount == 100              \* stats.count >= 100
DisabledBlockId == -1            \* new ProfilerBlock(-1, ...)
Infinity == 1000000000           \* IEEE +Infinity, above every modelled duration
NegInfinity == 0 - Infinity

Undefined == <<>>
Some(x) == <<x>>
Val(o) == o[1]

----------------------------------------------------------------------------
(* Exact arithmetic for avg and std *)

Abs(n) == IF n < 0 THEN 0 - n ELSE n

RECURSIVE GCD(_, _)
GCD(a, b) == IF b = 0 THEN a ELSE GCD(b, a % b)

\* the fraction n/d (d > 0) in lowest terms
Rat(n, d) == LET g == GCD(Abs(n), d) IN <<n \div g, d \div g>>

RECURSIVE SeqSum(_)
SeqSum(s) == IF s = <<>> THEN 0 ELSE Head(s) + SeqSum(Tail(s))

RECURSIVE SeqSumSq(_)
SeqSumSq(s) == IF s = <<>> THEN 0 ELSE Head(s) * Head(s) + SeqSumSq(Tail(s))

SeqMin(s) == IF s = <<>> THEN Infinity
             ELSE CHOOSE m \in {s[i] : i \in 1..Len(s)} : \A i \in 1..Len(s) : m <= s[i]
SeqMax(s) == IF s = <<>> THEN NegInfinity
             ELSE CHOOSE m \in {s[i] : i \in 1..Len(s)} : \A i \in 1..Len(s) : m >= s[i]

----------------------------------------------------------------------------
(* ProfilerBlock *)

\* defaults with min: 0
StatsDefaultsZeroMin(isHidden) ==
    [count |-> 0, sum |-> 0, sumSq |-> 0, avg |-> <<0, 1>>, std |-> <<0, 1>>,
     min |-> 0, max |-> NegInfinity, isHidden |-> isHidden]

\* _.defaults(stats, {count: 0, ...}) on an object with none of those fields
StatsDefaults(isHidden) ==
    [count |-> 0, sum |-> 0, sumSq |-> 0, avg |-> <<0, 1>>, std |-> <<0, 1>>,
     min |-> Infinity, max |-> NegInfinity, isHidden |-> isHidden]

\* new ProfilerBlock(id, name, { warnThreshold, stats }) at clock reading t
NewBlock(id, name, warnThreshold, t) ==
    [id |-> id, name |-> name, warnThreshold |-> warnThreshold,
     startedOn |-> t, endedOn |-> Undefined, duration |-> Undefined]

\* updateStats with the min comparison reversed
updateStatsMinReversed(stats, duration) ==
    LET count == stats.count + 1
        sum   == stats.sum + duration
        sumSq == stats.sumSq + duration * duration
    IN  [stats EXCEPT
            !.count = count,
            !.sum   = sum,
            !.sumSq = sumSq,
            !.avg   = Rat(sum, count),
            !.std   = Rat(count * sumSq - sum * sum, count * count),
            !.min   = IF duration > stats.min THEN duration ELSE stats.min,
            !.max   = IF duration > stats.max THEN duration ELSE stats.max]

\* ProfilerBlock#updateStats; std holds the fraction under Math.sqrt
updateStats(stats, duration) ==
    LET count == stats.count + 1
        sum   == stats.sum + duration
        sumSq == stats.sumSq + duration * duration
    IN  [stats EXCEPT
            !.count = count,
            !.sum   = sum,
            !.sumSq = sumSq,
            !.avg   = Rat(sum, count),
            !.std   = Rat(count * sumSq - sum * sum, count * count),
            !.min   = IF duration < stats.min THEN duration ELSE stats.min,
            !.max   = IF duration > stats.max THEN duration ELSE stats.max]

\* the comparison with the caller's warnThreshold made inclusive
OverThresholdInclusive(block, stats, duration) ==
    IF block.warnThreshold # Undefined
    THEN duration >= Val(block.warnThreshold)
    ELSE LET lhs == stats.count * duration - 2 * stats.sum
         IN  lhs > 0 /\ lhs * lhs > stats.count * stats.sumSq - stats.sum * stats.sum

\* duration > warnThreshold, where warnThreshold is the caller's number or
\* 2 * stats.avg + stats.std of the aggregate as it is after updateStats:
\* d > 2s/n + sqrt(v)  <=>  n*d - 2s > 0  /\  (n*d - 2s)^2 > n*q - s^2
OverThreshold(block, stats, duration) ==
    IF block.warnThreshold # Undefined
    THEN duration > Val(block.warnThreshold)
    ELSE LET lhs == stats.count * duration - 2 * stats.sum
         IN  lhs > 0 /\ lhs * lhs > stats.count * stats.sumSq - stats.sum * stats.sum

----------------------------------------------------------------------------
(* Profiler: buffers and emitters *)

Hole == [type |-> "hole", name |-> "", duration |-> Undefined]
EmptyBuffer == [i \in 1..BufferSize |-> Hole]           \* Array(10)

\* buffer.unshift(entry); buffer.pop()
UnshiftPop(buffer, entry) == <<entry>> \o SubSeq(buffer, 1, Len(buffer) - 1)

\* buffer.push(entry) without the shift
PushOnly(buffer, entry) == Append(buffer, entry)

\* buffer.push(entry); buffer.shift()
PushShift(buffer, entry) == Tail(Append(buffer, entry))

\* _.filter(buffer)
Filter(buffer) == SelectSeq(buffer, LAMBDA e : e # Hole)

BeginEvent(block) == [type |-> "begin", name |-> block.name, duration |-> Undefined]
EndEvent(block) == [type |-> "end", name |-> block.name, duration |-> block.duration]
LimitExceeded(block) ==
    [type |-> "LIMIT_EXCEEDED", name |-> block.name, duration |-> Undefined]

\* the process-wide emitter served before the namespace's own listeners
EmitGlobalFirst(log, ns, type, id) ==
    log \o << [tier |-> "global", ns |-> ns, type |-> type, id |-> id],
              [tier |-> "local",  ns |-> ns, type |-> type, id |-> id] >>

\* this.emit(type, ...) then this.constructor.emitter.emit(type, this.namespace, ...)
Emit(log, ns, type, id) ==
    log \o << [tier |-> "local",  ns |-> ns, type |-> type, id |-> id],
              [tier |-> "global", ns |-> ns, type |-> type, id |-> id] >>

\* new Profiler(namespace): the fields of the fresh instance
NewProfiler(ns) ==
    [namespace |-> ns,
     activeBlocksById |-> <<>>,
     activeBlocksByName |-> <<>>,
     idCounter |-> 0,
     stats |-> (disabledBlockName :> StatsDefaults(TRUE)),
     events |-> EmptyBuffer,
     warnings |-> EmptyBuffer]

Registered == DOMAIN simpleProfiler

\* addBlock that forgets the by-name index
addBlockByIdOnly(p, block) ==
    [p EXCEPT !.activeBlocksById = (block.id :> block.id) @@ @]

\* addBlock that forgets the by-id index
addBlockByNameOnly(p, block) ==
    [p EXCEPT !.activeBlocksByName = (block.name :> block.id) @@ @]

\* Profiler#addBlock: the two index writes (the listeners are part of End)
addBlock(p, block) ==
    [p EXCEPT
        !.activeBlocksById = (block.id :> block.id) @@ @,
        !.activeBlocksByName = (block.name :> block.id) @@ @]

\* delete obj[key]
Delete(obj, key) == [k \in DOMAIN obj \ {key} |-> obj[k]]

\* removeBlock that forgets the by-name index
removeBlockByIdOnly(p, block) ==
    [p EXCEPT !.activeBlocksById = Delete(@, block.id)]

\* removeBlock that empties the by-id index
removeBlockClearsIds(p, block) ==
    [p EXCEPT
        !.activeBlocksById = <<>>,
        !.activeBlocksByName = Delete(@, block.name)]

\* Profiler#removeBlock
removeBlock(p, block) ==
    [p EXCEPT
        !.activeBlocksById = Delete(@, block.id),
        !.activeBlocksByName = Delete(@, block.name)]

----------------------------------------------------------------------------
(* The caller's references and what calls return *)

NoRef == [t |-> "none", ns |-> "", id |-> 0, name |-> ""]
IdRef(id) == [t |-> "number", ns |-> "", id |-> id, name |-> ""]
NameRef(name) == [t |-> "string", ns |-> "", id |-> 0, name |-> name]
BlockRef(ns, id) == [t |-> "block", ns |-> ns, id |-> id, name |-> ""]
ObjectRef == [t |-> "object", ns |-> "", id |-> 0, name |-> ""]   \* {} : no block

Call(op, ns, ref, result) == [op |-> op, ns |-> ns, ref |-> ref, result |-> result]

Returned(kind, ns, id, name) == [kind |-> kind, ns |-> ns, id |-> id, name |-> name]
RetUndefined == Returned("undefined", "", 0, "")
RetThrew == Returned("threw", "", 0, "")
RetBlock(ns, id) == Returned("block", ns, id, "")
RetStats(ns, name) == Returned("stats", ns, 0, name)
RetProfiler(ns) == Returned("profiler", ns, 0, "")     \* global.simpleProfiler[ns]
RetFresh(ns) == Returned("fresh", ns, 0, "")           \* an instance not registered
RetValue(x) == Returned("value", "", x, "")            \* the value x itself
RetThrown(e) == Returned("thrown", "", e, "")          \* the caller's own error e
RetPromise(pid) == Returned("promise", "", pid, "")    \* the promise pid itself
RetFunction == Returned("function", "", 0, "")
RetTable(ns) == Returned("table", ns, 0, "")           \* the stats object of ns
RetCopy(ns, name) == Returned("copy", ns, 0, name)     \* a copy of an aggregate
RetString == Returned("string", "", 0, "")
RetTypeError == Returned("TypeError", "", 0, "")       \* property of undefined
PromiseRef(pid) == [t |-> "promise", ns |-> "", id |-> pid, name |-> ""]

\* nothing wrapped yet: no promise, no block held by a closure of wrap, no
\* function made by wrappedEnd, no call of a wrapped function
NoFn == [fn |-> "none", self |-> "", arg |-> 0]
NoWrapped == [promises |-> <<>>, own |-> {}, fns |-> {}, call |-> NoFn, applied |-> <<>>]

----------------------------------------------------------------------------
Init ==
    /\ isEnabled = FALSE                    \* Profiler.disable() at module load
    /\ simpleProfiler = <<>>
    /\ staticRef = <<>>
    /\ blocks = <<>>
    /\ emitted = <<>>
    /\ last = Call("load", "", NoRef, RetUndefined)
    /\ folded = <<>>
    /\ wrapped = NoWrapped

\* Profiler.enable()
Enable ==
    /\ isEnabled' = TRUE
    /\ last' = Call("enable", "", NoRef, RetUndefined)
    /\ UNCHANGED <<simpleProfiler, staticRef, blocks, emitted, folded>>

\* disable() that leaves the flag as it is
DisableKeepsFlag ==
    /\ last' = Call("disable", "", NoRef, RetUndefined)
    /\ UNCHANGED <<isEnabled, simpleProfiler, staticRef, blocks, emitted, folded>>

\* Profiler.disable()
Disable ==
    /\ isEnabled' = FALSE
    /\ last' = Call("disable", "", NoRef, RetUndefined)
    /\ UNCHANGED <<simpleProfiler, staticRef, blocks, emitted, folded>>

\* a constructor that hands back the fresh instance instead of the registered one
ConstructExistingReturnsThis(ns) ==
    /\ staticRef' = [staticRef EXCEPT ![ns] = "dropped"]
    /\ last' = Call("new", ns, NoRef, RetFresh(ns))
    /\ UNCHANGED <<isEnabled, simpleProfiler, blocks, emitted, folded>>

\* new Profiler(ns) when global.simpleProfiler[ns] exists: the fresh instance
\* has overwritten the static tables and is dropped, the registered one returned
ConstructExisting(ns) ==
    /\ staticRef' = [staticRef EXCEPT ![ns] = "dropped"]
    /\ last' = Call("new", ns, NoRef, RetProfiler(ns))
    /\ UNCHANGED <<isEnabled, simpleProfiler, blocks, emitted, folded>>

\* new Profiler(ns) at clock reading t
Construct(ns, t) ==
    IF ns \in Registered
    THEN ConstructExisting(ns)
    ELSE /\ simpleProfiler' = (ns :> NewProfiler(ns)) @@ simpleProfiler
         /\ staticRef' = (ns :> "registered") @@ staticRef
         /\ blocks' = (<<ns, DisabledBlockId>> :>
                          NewBlock(DisabledBlockId, disabledBlockName, Undefined, t))
                      @@ blocks
         /\ folded' = (<<ns, disabledBlockName>> :> <<>>) @@ folded
         /\ last' = Call("new", ns, NoRef, RetProfiler(ns))
         /\ UNCHANGED <<isEnabled, emitted>>

\* Profiler.getStats()[ns], Profiler.getEvents()[ns], Profiler.getWarnings()[ns]:
\* the tables of the instance that ran the constructor for ns last
StaticTables(ns) ==
    IF staticRef[ns] = "registered" THEN RetProfiler(ns) ELSE RetFresh(ns)

\* the sums that the bounds cap
RECURSIVE SumOver(_, _)
SumOver(S, f) ==
    IF S = {} THEN 0
    ELSE LET x == CHOOSE y \in S : TRUE IN f[x] + SumOver(S \ {x}, f)

TotalBlocks == SumOver(Registered, [ns \in Registered |-> simpleProfiler[ns].idCounter])
TotalFolds == SumOver(DOMAIN folded, [k \in DOMAIN folded |-> Len(folded[k])])
Calls == TotalBlocks + TotalFolds

\* Profiler#emitBegin: the buffer write (the two emits are logged by the caller)
emitBegin(p, block) == [p EXCEPT !.events = PushShift(@, BeginEvent(block))]

\* Profiler#emitEnd
emitEnd(p, block) == [p EXCEPT !.events = PushShift(@, EndEvent(block))]

\* emitWarning that does not keep the warning
emitWarningForgets(p, warning) == p

\* Profiler#emitWarning
emitWarning(p, warning) == [p EXCEPT !.warnings = PushShift(@, warning)]

\* begin that records the 'begin' event before it looks at the flag
BeginDisabledEmits(ns, name) ==
    /\ simpleProfiler' = [simpleProfiler EXCEPT
           ![ns] = emitBegin(@, [blocks[<<ns, DisabledBlockId>>] EXCEPT !.name = name])]
    /\ emitted' = Emit(emitted, ns, "begin", DisabledBlockId)
    /\ last' = Call("begin", ns, NameRef(name), RetBlock(ns, DisabledBlockId))
    /\ UNCHANGED <<isEnabled, staticRef, blocks, folded>>

\* Profiler#begin while disabled: return this.disabledBlock
BeginDisabled(ns, name) ==
    /\ last' = Call("begin", ns, NameRef(name), RetBlock(ns, DisabledBlockId))
    /\ UNCHANGED <<isEnabled, simpleProfiler, staticRef, blocks, emitted, folded>>

\* begin that numbers the block after the blocks that are active
BeginOfCountsActive(p, name, warnThreshold, t) ==
    LET id == Cardinality(DOMAIN p.activeBlocksById) + 1
        block == NewBlock(id, name, warnThreshold, t)
        stats == IF name \in DOMAIN p.stats
                 THEN p.stats
                 ELSE (name :> StatsDefaults(FALSE)) @@ p.stats
        p1 == [p EXCEPT !.idCounter = id, !.stats = stats]
    IN  [block |-> block, p |-> emitBegin(addBlock(p1, block), block)]

\* begin that gives every block an aggregate of its own
BeginOfFreshStats(p, name, warnThreshold, t) ==
    LET id == p.idCounter + 1
        block == NewBlock(id, name, warnThreshold, t)
        stats == (name :> StatsDefaults(FALSE)) @@ p.stats
        p1 == [p EXCEPT !.idCounter = id, !.stats = stats]
    IN  [block |-> block, p |-> emitBegin(addBlock(p1, block), block)]

\* Profiler#begin on an enabled registry: the new block and the instance after
\* ++idCounter, the stats lookup, addBlock and emitBegin
BeginOf(p, name, warnThreshold, t) ==
    LET id == p.idCounter + 1
        block == NewBlock(id, name, warnThreshold, t)
        stats == IF name \in DOMAIN p.stats
                 THEN p.stats
                 ELSE (name :> StatsDefaults(FALSE)) @@ p.stats
        p1 == [p EXCEPT !.idCounter = id, !.stats = stats]
    IN  [block |-> block, p |-> emitBegin(addBlock(p1, block), block)]

\* what Profiler#begin changes on an enabled registry
BeginEnabled(ns, name, warnThreshold, t) ==
    LET begun == BeginOf(simpleProfiler[ns], name, warnThreshold, t)
        id == begun.block.id
    IN  /\ simpleProfiler' = [simpleProfiler EXCEPT ![ns] = begun.p]
        /\ blocks' = (<<ns, id>> :> begun.block) @@ blocks
        /\ emitted' = Emit(emitted, ns, "begin", id)
        /\ folded' = IF <<ns, name>> \in DOMAIN folded
                     THEN folded
                     ELSE (<<ns, name>> :> <<>>) @@ folded

\* Profiler#begin(name, warnThreshold) at clock reading t
Begin(ns, name, warnThreshold, t, cap) ==
    /\ ns \in Registered
    /\ IF ~isEnabled
       THEN BeginDisabled(ns, name)
       ELSE /\ Calls < cap
            /\ BeginEnabled(ns, name, warnThreshold, t)
            /\ last' = Call("begin", ns, NameRef(name),
                            RetBlock(ns, BeginOf(simpleProfiler[ns], name,
                                                 warnThreshold, t).block.id))
            /\ UNCHANGED <<isEnabled, staticRef>>

\* ProfilerBlock#end of block b of instance p at clock reading t, with the
\* listeners Profiler#addBlock attached to it (the disabledBlock has none):
\* the block, the instance and the emit log afterwards
EndOf(p, log, b, t) ==
    LET duration == t - b.startedOn
        block == [b EXCEPT !.endedOn = Some(t), !.duration = Some(duration)]
        stats == updateStats(p.stats[b.name], duration)
        p1 == [p EXCEPT !.stats[b.name] = stats]
        warn == stats.count >= WarnMinCount /\ OverThreshold(block, stats, duration)
        listened == b.id # DisabledBlockId
        \* block.emit('warning', ...) -> Profiler#emitWarning
        p2 == IF warn /\ listened THEN emitWarning(p1, LimitExceeded(block)) ELSE p1
        log2 == IF warn /\ listened
                THEN Emit(log, p.namespace, "warning", b.id) ELSE log
        \* block.emit('end', this) -> removeBlock, emitEnd
        p3 == IF listened THEN emitEnd(removeBlock(p2, block), block) ELSE p2
        log3 == IF listened THEN Emit(log2, p.namespace, "end", b.id) ELSE log2
    IN  [block |-> block, p |-> p3, log |-> log3, duration |-> duration,
         \* the instance as the 'warning' listeners find it
         atWarning |-> IF warn /\ listened THEN Some(p1) ELSE Undefined]

\* ProfilerBlock#end of block <<ns, id>> at clock reading t
BlockEnd(ns, id, t) ==
    LET ended == EndOf(simpleProfiler[ns], emitted, blocks[<<ns, id>>], t)
    IN  /\ blocks' = [blocks EXCEPT ![<<ns, id>>] = ended.block]
        /\ simpleProfiler' = [simpleProfiler EXCEPT ![ns] = ended.p]
        /\ emitted' = ended.log
        /\ folded' = [folded EXCEPT ![<<ns, ended.block.name>>] =
                                        Append(@, ended.duration)]

\* block.end() called on a handle the caller holds
EndHandle(ns, id, t, cap) ==
    /\ <<ns, id>> \in DOMAIN blocks
    /\ Calls < cap
    /\ BlockEnd(ns, id, t)
    /\ last' = Call("block.end", ns, BlockRef(ns, id),
                    RetStats(ns, blocks[<<ns, id>>].name))
    /\ UNCHANGED <<isEnabled, staticRef>>

\* getBlock that looks an id up among all blocks ever begun
getBlockAnyBegun(p, ref) ==
    CASE ref.t = "number" ->
            IF <<p.namespace, ref.id>> \in DOMAIN blocks
            THEN RetBlock(p.namespace, ref.id) ELSE RetThrew
      [] ref.t = "string" ->
            IF ref.name \in DOMAIN p.activeBlocksByName
            THEN RetBlock(p.namespace, p.activeBlocksByName[ref.name]) ELSE RetThrew
      [] ref.t = "block" -> RetBlock(ref.ns, ref.id)
      [] OTHER -> RetThrew

\* Profiler#getBlock(ref)
getBlock(p, ref) ==
    CASE ref.t = "number" ->
            IF ref.id \in DOMAIN p.activeBlocksById
            THEN RetBlock(p.namespace, p.activeBlocksById[ref.id]) ELSE RetThrew
      [] ref.t = "string" ->
            IF ref.name \in DOMAIN p.activeBlocksByName
            THEN RetBlock(p.namespace, p.activeBlocksByName[ref.name]) ELSE RetThrew
      [] ref.t = "block" -> RetBlock(ref.ns, ref.id)
      [] OTHER -> RetThrew

\* the references a caller can pass: an id handed out or the next one, a name,
\* a block it holds, or an object that is no block
NextId == 1 + SumOver(Registered, [ns \in Registered |-> simpleProfiler[ns].idCounter])
Refs(names) ==
    {IdRef(i) : i \in 1..NextId} \cup {NameRef(n) : n \in names}
    \cup {BlockRef(k[1], k[2]) : k \in DOMAIN blocks} \cup {ObjectRef}

\* end(ref) that does not look at the enabled flag
EndIgnoresFlag(ns, ref, t, cap) ==
    /\ ns \in Registered
    /\ LET found == getBlock(simpleProfiler[ns], ref)
       IN  IF found = RetThrew
           THEN /\ last' = Call("end", ns, ref, RetThrew)
                /\ UNCHANGED <<isEnabled, simpleProfiler, staticRef, blocks,
                               emitted, folded>>
           ELSE /\ Calls < cap
                /\ BlockEnd(found.ns, found.id, t)
                /\ last' = Call("end", ns, ref,
                                RetStats(found.ns, blocks[<<found.ns, found.id>>].name))
                /\ UNCHANGED <<isEnabled, staticRef>>

\* Profiler#end(ref) at clock reading t
End(ns, ref, t, cap) ==
    /\ ns \in Registered
    /\ IF ~isEnabled
       THEN /\ last' = Call("end", ns, ref, RetUndefined)
            /\ UNCHANGED <<isEnabled, simpleProfiler, staticRef, blocks, emitted, folded>>
       ELSE LET found == getBlock(simpleProfiler[ns], ref)
            IN  IF found = RetThrew
                THEN /\ last' = Call("end", ns, ref, RetThrew)
                     /\ UNCHANGED <<isEnabled, simpleProfiler, staticRef, blocks,
                                    emitted, folded>>
                ELSE /\ Calls < cap
                     /\ BlockEnd(found.ns, found.id, t)
                     /\ last' = Call("end", ns, ref,
                                     RetStats(found.ns, blocks[<<found.ns, found.id>>].name))
                     /\ UNCHANGED <<isEnabled, staticRef>>

\* every call a caller can make, with namespaces, block names and
\* warnThresholds drawn from the given sets
NextOver(namespaces, names, thresholds, cap) ==
    \/ Enable /\ UNCHANGED wrapped
    \/ Disable /\ UNCHANGED wrapped
    \/ \E ns \in namespaces, t \in StartTimes : Construct(ns, t) /\ UNCHANGED wrapped
    \/ \E ns \in namespaces, name \in names, w \in thresholds, t \in StartTimes :
          Begin(ns, name, w, t, cap) /\ UNCHANGED wrapped
    \/ \E k \in DOMAIN blocks, t \in Times :
          EndHandle(k[1], k[2], t, cap) /\ UNCHANGED wrapped
    \/ \E ns \in namespaces, ref \in Refs(names), t \in Times :
          End(ns, ref, t, cap) /\ UNCHANGED wrapped

\* one namespace, two block names
Next == NextOver({"n1"}, {"a", "b"}, {Undefined}, MaxCalls)
Spec == Init /\ [][Next]_vars

\* two namespaces
NextRegistry == NextOver({"n1", "n2"}, {"a"}, {Undefined}, MaxRegistryCalls)
SpecRegistry == Init /\ [][NextRegistry]_vars

\* one namespace, overlapping blocks of one name
NextOverlap == NextOver({"n1"}, {"a"}, {Undefined}, MaxOverlapCalls)
SpecOverlap == Init /\ [][NextOverlap]_vars

----------------------------------------------------------------------------
(* A registry that has already timed many blocks *)

StartTime == CHOOSE t \in StartTimes : TRUE

\* block = p.begin(name, warnThreshold); block.end() of duration d on an enabled
\* registry: the instance, the emit log, the durations folded and the block
RunPair(world, name, warnThreshold, d) ==
    LET begun == BeginOf(world.p, name, warnThreshold, StartTime)
        log1 == Emit(world.log, world.p.namespace, "begin", begun.block.id)
        ended == EndOf(begun.p, log1, begun.block, StartTime + d)
    IN  [p |-> ended.p, log |-> ended.log,
         hist |-> Append(world.hist, ended.duration), block |-> ended.block]

\* RunPair once per duration in ds, in order (the sequence is run in two
\* halves, the first evaluated before the second starts)
RECURSIVE RunPairs(_, _, _, _)
RunPairs(world, name, warnThreshold, ds) ==
    IF ds = <<>> THEN world
    ELSE IF Len(ds) = 1 THEN RunPair(world, name, warnThreshold, ds[1])
    ELSE LET h == Len(ds) \div 2
             half == RunPairs(world, name, warnThreshold, SubSeq(ds, 1, h))
         IN  IF half.p.idCounter > 0
             THEN RunPairs(half, name, warnThreshold, SubSeq(ds, h + 1, Len(ds)))
             ELSE half

\* Profiler.enable(); p = new Profiler(ns); then RunPairs, the caller keeping
\* the handle of the last block only
InitAfter(ns, name, warnThreshold, ds) ==
    LET fresh == [p |-> NewProfiler(ns), log |-> <<>>, hist |-> <<>>,
                  block |-> NewBlock(DisabledBlockId, disabledBlockName, Undefined,
                                     StartTime)]
        world == RunPairs(fresh, name, warnThreshold, ds)
    IN  /\ isEnabled = TRUE
        /\ simpleProfiler = (ns :> world.p)
        /\ staticRef = (ns :> "registered")
        /\ blocks = (<<ns, world.block.id>> :> world.block)
                     @@ (<<ns, DisabledBlockId>> :> fresh.block)
        /\ emitted = world.log
        /\ last = Call("block.end", ns, BlockRef(ns, world.block.id),
                       RetStats(ns, world.block.name))
        /\ folded = (<<ns, name>> :> world.hist) @@ (<<ns, disabledBlockName>> :> <<>>)
        /\ wrapped = NoWrapped

\* PreloadCount blocks of name "a" without warnThreshold: PreloadOnes of 1 ms,
\* then the others of 0 ms
InitWarn ==
    InitAfter("n1", "a", Undefined,
              [i \in 1..PreloadCount |-> IF i <= PreloadOnes THEN 1 ELSE 0])

\* begin with and without a caller's warnThreshold, end through the handle or
\* the name, on the enabled registry
NextWarn ==
    LET cap == 2 * PreloadCount + MaxWarnCalls
    IN  \/ \E w \in {Undefined, Some(0)}, t \in StartTimes :
              Begin("n1", "a", w, t, cap) /\ UNCHANGED wrapped
        \/ \E k \in DOMAIN blocks, t \in Times :
              EndHandle(k[1], k[2], t, cap) /\ UNCHANGED wrapped
        \/ \E t \in Times : End("n1", NameRef("a"), t, cap) /\ UNCHANGED wrapped
SpecWarn == InitWarn /\ [][NextWarn]_vars

\* blocks of name "a" with warnThreshold 0 that each took 1 ms, as many as it
\* takes to be warned about more often than the warnings buffer is long
InitBuffer ==
    InitAfter("n1", "a", Some(0), [i \in 1..(WarnMinCount + BufferSize) |-> 1])

\* the same calls as NextWarn, on full buffers
NextBuffer ==
    LET cap == 2 * (WarnMinCount + BufferSize) + MaxBufferCalls
    IN  \/ \E w \in {Undefined, Some(0)}, t \in StartTimes :
              Begin("n1", "a", w, t, cap) /\ UNCHANGED wrapped
        \/ \E k \in DOMAIN blocks, t \in Times :
              EndHandle(k[1], k[2], t, cap) /\ UNCHANGED wrapped
        \/ \E t \in Times : End("n1", NameRef("a"), t, cap) /\ UNCHANGED wrapped
SpecBuffer == InitBuffer /\ [][NextBuffer]_vars

----------------------------------------------------------------------------
(* Profiler#wrap, ProfilerBlock#wrappedEnd and wrappedEndError *)

\* what the wrapped callable is called with, what it returns or throws, and
\* the values that are neither functions nor thenables
Selves == {"fnObj"}
Args == {3}
Errors == {13}
Scalars == {123}
FnReturn(self, arg) == arg + 4

\* fn(...args): the call fn sees when this is not passed on
FnApplyUnbound(self, arg) == [self |-> "undefined", arg |-> arg]

\* fn.apply(this, args): the call fn sees
FnApply(self, arg) == [self |-> self, arg |-> arg]

Pending(pid) == pid \in DOMAIN wrapped.promises /\ wrapped.promises[pid].state = "pending"

\* the id of the block profiler.begin returns
BegunId(ns) == IF isEnabled THEN simpleProfiler[ns].idCounter + 1 ELSE DisabledBlockId

\* profiler.begin(name, warnThreshold) made by wrap
WrapBegin(ns, name, warnThreshold, t, cap) ==
    IF ~isEnabled
    THEN UNCHANGED <<simpleProfiler, blocks, emitted, folded>>
    ELSE Calls < cap /\ BeginEnabled(ns, name, warnThreshold, t)

\* wrap(fn, name) for a function fn: returns the wrapper
WrapFunction(ns, name) ==
    /\ ns \in Registered
    /\ last' = Call("wrap", ns, NameRef(name), RetFunction)
    /\ UNCHANGED <<isEnabled, simpleProfiler, staticRef, blocks, emitted, folded, wrapped>>

\* wrap that begins a block for a value that is no function and no thenable
WrapScalarBegins(ns, name, x) ==
    /\ ns \in Registered
    /\ isEnabled
    /\ BeginEnabled(ns, name, Undefined, StartTime)
    /\ wrapped' = [wrapped EXCEPT !.call = [fn |-> "scalar", self |-> "", arg |-> x]]
    /\ last' = Call("wrap", ns, NameRef(name), RetValue(x))
    /\ UNCHANGED <<isEnabled, staticRef>>

\* wrap(x, name) for x neither a function nor a thenable
WrapScalar(ns, name, x) ==
    /\ ns \in Registered
    /\ wrapped' = [wrapped EXCEPT !.call = [fn |-> "scalar", self |-> "", arg |-> x]]
    /\ last' = Call("wrap", ns, NameRef(name), RetValue(x))
    /\ UNCHANGED <<isEnabled, simpleProfiler, staticRef, blocks, emitted, folded>>

\* wrap(promise, name) at clock reading t, for a promise not yet settled
WrapPromise(ns, name, t, cap) ==
    LET pid == Len(wrapped.promises) + 1
        id == BegunId(ns)
    IN  /\ ns \in Registered
        /\ pid <= MaxPromises
        /\ WrapBegin(ns, name, Undefined, t, cap)
        /\ wrapped' = [wrapped EXCEPT
               !.promises = Append(@, [state |-> "pending", ns |-> ns, id |-> id,
                                       then |-> TRUE]),
               !.own = IF isEnabled THEN @ \cup {<<ns, id>>} ELSE @]
        /\ last' = Call("wrap", ns, NameRef(name), RetPromise(pid))
        /\ UNCHANGED <<isEnabled, staticRef>>

\* wrap(fn, name)(arg) with this = self, for fn returning a value that is no
\* thenable; the block begins at StartTime and ends at clock reading t
WrappedSync(ns, name, self, arg, t, cap) ==
    /\ ns \in Registered
    /\ wrapped' = [wrapped EXCEPT !.call = [fn |-> "returns", self |-> self, arg |-> arg],
                                  !.applied = <<FnApply(self, arg)>>]
    /\ last' = Call("wrapped", ns, NameRef(name), RetValue(FnReturn(self, arg)))
    /\ IF ~isEnabled
       THEN UNCHANGED <<isEnabled, simpleProfiler, staticRef, blocks, emitted, folded>>
       ELSE LET begun == BeginOf(simpleProfiler[ns], name, Undefined, StartTime)
                id == begun.block.id
                ended == EndOf(begun.p, Emit(emitted, ns, "begin", id), begun.block, t)
                hist == IF <<ns, name>> \in DOMAIN folded THEN folded[<<ns, name>>]
                        ELSE <<>>
            IN  /\ Calls + 1 < cap
                /\ simpleProfiler' = [simpleProfiler EXCEPT ![ns] = ended.p]
                /\ blocks' = (<<ns, id>> :> ended.block) @@ blocks
                /\ emitted' = ended.log
                /\ folded' = (<<ns, name>> :> Append(hist, ended.duration)) @@ folded
                /\ UNCHANGED <<isEnabled, staticRef>>

\* wrap(fn, name)(arg) for fn throwing e: the exception leaves the wrapper at
\* fn.apply, after profiler.begin
WrappedThrows(ns, name, self, arg, e, cap) ==
    /\ ns \in Registered
    /\ WrapBegin(ns, name, Undefined, StartTime, cap)
    /\ wrapped' = [wrapped EXCEPT
           !.call = [fn |-> "throws", self |-> self, arg |-> arg],
           !.applied = <<FnApply(self, arg)>>,
           !.own = IF isEnabled THEN @ \cup {<<ns, BegunId(ns)>>} ELSE @]
    /\ last' = Call("wrapped", ns, NameRef(name), RetThrown(e))
    /\ UNCHANGED <<isEnabled, staticRef>>

\* wrap(fn, name)(arg) for fn returning a promise not yet settled; while
\* disabled the promise is handed back with nothing chained on it
WrappedAsync(ns, name, self, arg, cap) ==
    LET pid == Len(wrapped.promises) + 1
        id == BegunId(ns)
    IN  /\ ns \in Registered
        /\ pid <= MaxPromises
        /\ WrapBegin(ns, name, Undefined, StartTime, cap)
        /\ wrapped' = [wrapped EXCEPT
               !.call = [fn |-> "promise", self |-> self, arg |-> arg],
               !.applied = <<FnApply(self, arg)>>,
               !.promises = Append(@, [state |-> "pending", ns |-> ns, id |-> id,
                                       then |-> isEnabled]),
               !.own = IF isEnabled THEN @ \cup {<<ns, id>>} ELSE @]
        /\ last' = Call("wrapped", ns, NameRef(name), RetPromise(pid))
        /\ UNCHANGED <<isEnabled, staticRef>>

\* a resolution that does not run the callback chained by wrap
ResolveForgets(pid, t, cap) ==
    /\ Pending(pid)
    /\ wrapped' = [wrapped EXCEPT !.promises[pid].state = "fulfilled"]
    /\ last' = Call("resolve", wrapped.promises[pid].ns, PromiseRef(pid), RetUndefined)
    /\ UNCHANGED <<isEnabled, simpleProfiler, staticRef, blocks, emitted, folded>>

\* a callback that ends the block its name resolves to, not the block begun
\* for the promise
ResolveEndsByName(pid, t, cap) ==
    LET ns == wrapped.promises[pid].ns
        name == blocks[<<ns, wrapped.promises[pid].id>>].name
        byName == simpleProfiler[ns].activeBlocksByName
    IN  /\ Pending(pid)
        /\ wrapped' = [wrapped EXCEPT !.promises[pid].state = "fulfilled"]
        /\ last' = Call("resolve", ns, PromiseRef(pid), RetUndefined)
        /\ IF wrapped.promises[pid].then /\ name \in DOMAIN byName
           THEN /\ Calls < cap
                /\ BlockEnd(ns, byName[name], t)
           ELSE UNCHANGED <<simpleProfiler, blocks, emitted, folded>>
        /\ UNCHANGED <<isEnabled, staticRef>>

\* promise pid is fulfilled at clock reading t: () => block.end() runs if
\* wrap chained it
Resolve(pid, t, cap) ==
    /\ Pending(pid)
    /\ wrapped' = [wrapped EXCEPT !.promises[pid].state = "fulfilled"]
    /\ last' = Call("resolve", wrapped.promises[pid].ns, PromiseRef(pid), RetUndefined)
    /\ IF wrapped.promises[pid].then
       THEN /\ Calls < cap
            /\ BlockEnd(wrapped.promises[pid].ns, wrapped.promises[pid].id, t)
       ELSE UNCHANGED <<simpleProfiler, blocks, emitted, folded>>
    /\ UNCHANGED <<isEnabled, staticRef>>

\* promise pid is rejected: then() was given no rejection callback
Reject(pid) ==
    /\ Pending(pid)
    /\ wrapped' = [wrapped EXCEPT !.promises[pid].state = "rejected"]
    /\ last' = Call("reject", wrapped.promises[pid].ns, PromiseRef(pid), RetUndefined)
    /\ UNCHANGED <<isEnabled, simpleProfiler, staticRef, blocks, emitted, folded>>

\* block.wrappedEnd() or block.wrappedEndError() on a handle the caller holds;
\* the caller keeps the function made last
CreateWrappedEnd(ns, id, kind) ==
    /\ <<ns, id>> \in DOMAIN blocks \ wrapped.own
    /\ wrapped' = [wrapped EXCEPT !.fns = {[kind |-> kind, ns |-> ns, id |-> id]}]
    /\ last' = Call(kind, ns, BlockRef(ns, id), RetFunction)
    /\ UNCHANGED <<isEnabled, simpleProfiler, staticRef, blocks, emitted, folded>>

\* a function of wrappedEnd that hands back what end() returned
CallWrappedEndReturnsStats(f, x, t, cap) ==
    /\ f \in wrapped.fns
    /\ Calls < cap
    /\ BlockEnd(f.ns, f.id, t)
    /\ wrapped' = [wrapped EXCEPT !.call = [fn |-> f.kind, self |-> "", arg |-> x]]
    /\ last' = Call("f", f.ns, BlockRef(f.ns, f.id), RetStats(f.ns, blocks[<<f.ns, f.id>>].name))
    /\ UNCHANGED <<isEnabled, staticRef>>

\* f(x) at clock reading t, for f made by wrappedEnd or wrappedEndError
CallWrappedEnd(f, x, t, cap) ==
    /\ f \in wrapped.fns
    /\ Calls < cap
    /\ BlockEnd(f.ns, f.id, t)
    /\ wrapped' = [wrapped EXCEPT !.call = [fn |-> f.kind, self |-> "", arg |-> x]]
    /\ last' = Call("f", f.ns, BlockRef(f.ns, f.id),
                    IF f.kind = "wrappedEnd" THEN RetValue(x) ELSE RetThrown(x))
    /\ UNCHANGED <<isEnabled, staticRef>>

\* the clock reading when a wrapped call completes
WrapTimes == {2}

\* one namespace, one block name: wrap in its four forms and the settling of
\* promises
NextWrap ==
    \/ Enable /\ UNCHANGED wrapped
    \/ Disable /\ UNCHANGED wrapped
    \/ \E t \in StartTimes : Construct("n1", t) /\ UNCHANGED wrapped
    \/ WrapFunction("n1", "a")
    \/ \E x \in Scalars : WrapScalar("n1", "a", x)
    \/ \E t \in StartTimes : WrapPromise("n1", "a", t, MaxWrapCalls)
    \/ \E self \in Selves, arg \in Args, t \in WrapTimes :
          WrappedSync("n1", "a", self, arg, t, MaxWrapCalls)
    \/ \E self \in Selves, arg \in Args, e \in Errors :
          WrappedThrows("n1", "a", self, arg, e, MaxWrapCalls)
    \/ \E self \in Selves, arg \in Args : WrappedAsync("n1", "a", self, arg, MaxWrapCalls)
    \/ \E pid \in DOMAIN wrapped.promises, t \in WrapTimes : Resolve(pid, t, MaxWrapCalls)
    \/ \E pid \in DOMAIN wrapped.promises : Reject(pid)
SpecWrap == Init /\ [][NextWrap]_vars

\* one namespace, one block name: begin, and ends through the functions of
\* wrappedEnd and wrappedEndError
NextWrappedEnd ==
    \/ Enable /\ UNCHANGED wrapped
    \/ Disable /\ UNCHANGED wrapped
    \/ \E t \in StartTimes : Construct("n1", t) /\ UNCHANGED wrapped
    \/ \E t \in StartTimes :
          Begin("n1", "a", Undefined, t, MaxWrappedEndCalls) /\ UNCHANGED wrapped
    \/ \E k \in DOMAIN blocks, kind \in {"wrappedEnd", "wrappedEndError"} :
          CreateWrappedEnd(k[1], k[2], kind)
    \/ \E f \in wrapped.fns, x \in Args, t \in Times :
          CallWrappedEnd(f, x, t, MaxWrappedEndCalls)
SpecWrappedEnd == Init /\ [][NextWrappedEnd]_vars

----------------------------------------------------------------------------
(* Profiler#getStats, Profiler#dumpStats and Profiler.dumpStats *)

\* getStats that hands out a copy of the aggregate
GetStatsCopies(ns, ref) ==
    /\ ns \in Registered
    /\ ref.t = "string"
    /\ last' = Call("getStats", ns, ref,
                    IF ref.name \in DOMAIN simpleProfiler[ns].stats
                    THEN RetCopy(ns, ref.name) ELSE RetUndefined)
    /\ UNCHANGED <<isEnabled, simpleProfiler, staticRef, blocks, emitted, folded, wrapped>>

\* Profiler#getStats(ref) for ref the id of a block, a name, or nothing
GetStats(ns, ref) ==
    LET p == simpleProfiler[ns]
        name == IF ref.t = "number"
                THEN blocks[<<ns, p.activeBlocksById[ref.id]>>].name
                ELSE ref.name
    IN  /\ ns \in Registered
        /\ ref.t \in {"number", "string", "none"}
        /\ last' = Call("getStats", ns, ref,
                CASE ref.t = "number" /\ ref.id \notin DOMAIN p.activeBlocksById
                        -> RetTypeError
                  [] ref.t = "none" -> RetTable(ns)
                  [] OTHER -> IF name \in DOMAIN p.stats
                              THEN RetStats(ns, name) ELSE RetUndefined)
        /\ UNCHANGED <<isEnabled, simpleProfiler, staticRef, blocks, emitted, folded,
                       wrapped>>

\* the table rows and the event lines of Profiler#dumpStats
dumpStats(p) ==
    [namespace |-> p.namespace,
     rows |-> {name \in DOMAIN p.stats : ~p.stats[name].isHidden},
     events |-> Filter(p.events)]

\* dumpStats that empties the events buffer it has printed
DumpStatsClears(ns) ==
    /\ ns \in Registered
    /\ simpleProfiler' = [simpleProfiler EXCEPT ![ns].events = EmptyBuffer]
    /\ last' = Call("dumpStats", ns, NoRef, RetString)
    /\ UNCHANGED <<isEnabled, staticRef, blocks, emitted, folded, wrapped>>

\* Profiler#dumpStats()
DumpStats(ns) ==
    /\ ns \in Registered
    /\ last' = Call("dumpStats", ns, NoRef, RetString)
    /\ UNCHANGED <<isEnabled, simpleProfiler, staticRef, blocks, emitted, folded, wrapped>>

\* Profiler.dumpStats(): dumpStats of every registered instance
DumpStatsGlobal ==
    /\ last' = Call("Profiler.dumpStats", "", NoRef, RetString)
    /\ UNCHANGED <<isEnabled, simpleProfiler, staticRef, blocks, emitted, folded, wrapped>>

\* one namespace, two block names, with the calls that only read
NextQuery ==
    \/ NextOver({"n1"}, {"a", "b"}, {Undefined}, MaxQueryCalls)
    \/ \E ref \in {NoRef} \cup {NameRef(n) : n \in {"a", "b"}}
                    \cup {IdRef(i) : i \in 1..NextId} : GetStats("n1", ref)
    \/ DumpStats("n1")
    \/ DumpStatsGlobal
SpecQuery == Init /\ [][NextQuery]_vars

\* one namespace, whose callers also use the block name 'DISABLED'
NextHidden ==
    \/ NextOver({"n1"}, {"a", disabledBlockName}, {Undefined}, MaxHiddenCalls)
    \/ DumpStats("n1")
SpecHidden == Init /\ [][NextHidden]_vars

----------------------------------------------------------------------------
(* Properties *)

\* a block begun by Profiler#begin that has not ended
IsBlock(k) == k \in DOMAIN blocks /\ k[2] # DisabledBlockId
Ended(k) == blocks[k].endedOn # Undefined
Active(k) == IsBlock(k) /\ ~Ended(k)
BlocksOf(ns) == {k \in DOMAIN blocks : k[1] = ns /\ k[2] # DisabledBlockId}

\* ref is an id or a name with no active block in ns, or no number, string or block
Unresolvable(ns, ref) ==
    \/ ref.t = "number" /\ ~Active(<<ns, ref.id>>)
    \/ ref.t = "string"
         /\ ~\E k \in BlocksOf(ns) : Active(k) /\ blocks[k].name = ref.name
    \/ ref.t = "object"

\* what a call must leave alone to have had no effect on profiling state
Profiling == <<simpleProfiler, blocks, emitted, folded>>

\* C1: after n folds of durations d1..dn (all >= 0) into an aggregate, its
\* count is n, sum is d1+...+dn, sumSq the sum of squares, min and max the
\* smallest and largest di, and avg * count = sum.
C1_FoldAccumulates ==
    \A k \in DOMAIN folded :
        LET ds == folded[k]
            stats == simpleProfiler[k[1]].stats[k[2]]
        IN  (\A i \in 1..Len(ds) : ds[i] >= 0) =>
               /\ stats.count = Len(ds)
               /\ stats.sum = SeqSum(ds)
               /\ stats.sumSq = SeqSumSq(ds)
               /\ stats.min = SeqMin(ds)
               /\ stats.max = SeqMax(ds)
               /\ stats.avg[2] > 0
               /\ stats.avg[1] * stats.count = stats.sum * stats.avg[2]
               /\ stats.avg[1] * Len(ds) = SeqSum(ds) * stats.avg[2]

\* two different non-negative durations were folded into one aggregate by
\* ends of blocks begun while enabled
C1_Witness ==
    \E k \in DOMAIN folded :
        /\ k[2] # disabledBlockName
        /\ Len(folded[k]) >= 2
        /\ \A i \in 1..Len(folded[k]) : folded[k][i] >= 0
        /\ \E i, j \in 1..Len(folded[k]) : folded[k][i] < folded[k][j]

\* C2: end() on a block handle that has already ended changes neither its
\* aggregate nor its endedOn and duration, and records and emits no event.
C2_EndIsIdempotent ==
    [][(/\ last'.op = "block.end"
        /\ last'.ref.id # DisabledBlockId
        /\ Ended(<<last'.ref.ns, last'.ref.id>>))
       => UNCHANGED Profiling]_vars

C4_EndByNameEndsLatest ==
    [][\A a, b \in DOMAIN blocks :
          (/\ isEnabled
           /\ last'.op = "end" /\ last'.ref.t = "string"
           /\ a[1] = last'.ns /\ b[1] = last'.ns /\ a[2] < b[2]
           /\ Active(a) /\ Active(b)
           /\ blocks[a].name = last'.ref.name /\ blocks[b].name = last'.ref.name
           /\ ~\E c \in BlocksOf(b[1]) : blocks[c].name = blocks[b].name /\ c[2] > b[2])
          => /\ last'.result = RetStats(b[1], blocks[b].name)
             /\ blocks'[b].endedOn # Undefined
             /\ blocks'[a] = blocks[a]
             /\ a[2] \in DOMAIN simpleProfiler'[a[1]].activeBlocksById]_vars

C6_DisabledBegin ==
    [][(last'.op = "begin" /\ ~isEnabled)
       => /\ last'.result = RetBlock(last'.ns, DisabledBlockId)
          /\ UNCHANGED Profiling]_vars

\* begin has just returned the placeholder in a namespace that has a block
C6_Witness ==
    /\ ~isEnabled
    /\ last.op = "begin" /\ last.result = RetBlock(last.ns, DisabledBlockId)
    /\ simpleProfiler[last.ns].idCounter > 0

\* C7: end() on the disabled placeholder changes no stats entry, records
\* nothing in the buffers and emits nothing.
C7_PlaceholderEndIsNoOp ==
    [][(last'.op = "block.end" /\ last'.ref.id = DisabledBlockId)
       => UNCHANGED <<simpleProfiler, emitted>>]_vars

\* C8: the flag starts false, enable() sets it, disable() clears it, nothing
\* else changes it, and begin returns the placeholder exactly when it is false.
C8_EnabledFlag ==
    /\ ~isEnabled
    /\ [][/\ last'.op = "enable" => isEnabled'
          /\ last'.op = "disable" => ~isEnabled'
          /\ last'.op \notin {"enable", "disable"} => isEnabled' = isEnabled
          /\ last'.op = "begin"
                => (last'.result.id = DisabledBlockId <=> ~isEnabled)]_vars

\* begin has just created a block in one namespace while the other, which
\* holds a block too, has been handed the placeholder before or will after
C8_Witness ==
    /\ isEnabled
    /\ last.op = "begin" /\ last.result.id # DisabledBlockId
    /\ \A ns \in {"n1", "n2"} : ns \in Registered /\ simpleProfiler[ns].idCounter > 0

\* C9: new Profiler(ns) for a registered ns returns the registered instance
\* and leaves its indices, aggregates, buffers, idCounter and blocks unchanged.
C9_ConstructReusesInstance ==
    [][(last'.op = "new" /\ last'.ns \in Registered)
       => /\ last'.result = RetProfiler(last'.ns)
          /\ simpleProfiler' = simpleProfiler
          /\ blocks' = blocks]_vars

\* a namespace holding an active block has just been constructed again
C9_Witness ==
    /\ last.op = "new"
    /\ staticRef[last.ns] = "dropped"
    /\ \E k \in BlocksOf(last.ns) : Active(k)

\* C10: once a namespace has been constructed twice, an AlreadyExists warning
\* has been emitted for it (the constructor defers nothing, so a warning not
\* emitted by then is never emitted).
C10_AlreadyExistsWarned ==
    \A ns \in Registered :
        staticRef[ns] = "dropped"
            => \E i \in DOMAIN emitted :
                   emitted[i].ns = ns /\ emitted[i].type = "warning"
\* the emits made by the step, in order
NewEmits == SubSeq(emitted', Len(emitted) + 1, Len(emitted'))

\* how many times the step emitted type for block id to the tier's listeners
EmitsOf(tier, type, id) ==
    Cardinality({i \in DOMAIN NewEmits :
                    /\ NewEmits[i].tier = tier
                    /\ NewEmits[i].type = type
                    /\ NewEmits[i].id = id})

\* the blocks of which an end() ran in the step
EndedNow == {<<NewEmits[i].ns, NewEmits[i].id>> :
                i \in {j \in DOMAIN NewEmits : NewEmits[j].type = "end"}}

\* C11: an end() of a block with a caller-supplied warnThreshold emits no
\* warning while it leaves fewer than 100 samples in the aggregate, whatever
\* the duration; from the end that makes the count 100 on it emits exactly one
\* warning if the duration exceeds the threshold and none if it does not.
C11_WarnFromHundredth ==
    [][\A k \in EndedNow :
          LET b == blocks'[k]
              count == simpleProfiler'[k[1]].stats[b.name].count
              breach == count >= WarnMinCount /\ Val(b.duration) > Val(b.warnThreshold)
          IN  b.warnThreshold # Undefined =>
                 /\ EmitsOf("local", "warning", k[2]) = (IF breach THEN 1 ELSE 0)
                 /\ EmitsOf("global", "warning", k[2]) = (IF breach THEN 1 ELSE 0)]_vars

\* a block over its caller's threshold ended without warning as sample 99, a
\* second one was warned about as sample 100 or later
C11_Witness ==
    /\ "n1" \in Registered
    /\ simpleProfiler["n1"].stats["a"].count >= WarnMinCount
    /\ Len(Filter(simpleProfiler["n1"].warnings)) = 1
    /\ \E k1, k2 \in BlocksOf("n1") :
          /\ k1[2] < k2[2]
          /\ \A k \in {k1, k2} :
                /\ blocks[k].warnThreshold # Undefined
                /\ Ended(k)
                /\ Val(blocks[k].duration) > Val(blocks[k].warnThreshold)

\* C12: the first end() of a block that leaves 100 samples or more, none of
\* them negative, warns exactly when the duration exceeds 2*avg + std of the
\* aggregate as it was before the end if the block has no warnThreshold, and
\* exactly when it exceeds the caller's number if it has one.
C12_ThresholdBeforeFold ==
    [][\A k \in EndedNow :
          LET b == blocks'[k]
              before == simpleProfiler[k[1]].stats[b.name]
              after == simpleProfiler'[k[1]].stats[b.name]
              hist == folded'[<<k[1], b.name>>]
          IN  (/\ after.count >= WarnMinCount
               /\ ~Ended(k)
               /\ \A i \in DOMAIN hist : hist[i] >= 0) =>
                 (EmitsOf("local", "warning", k[2]) = 1
                    <=> OverThreshold(b, before, Val(b.duration)))]_vars

\* C13: an end() that breaches the threshold still folds the sample, removes
\* the block from both indices, emits 'end' after the warning and returns the
\* aggregate; the warning is appended to the warnings buffer and emitted once
\* to the namespace's and once to the process-wide listeners.
C13_BreachDoesNotInterrupt ==
    [][\A k \in EndedNow :
          LET b == blocks'[k]
              p == simpleProfiler'[k[1]]
              hist == folded[<<k[1], b.name>>]
          IN  EmitsOf("local", "warning", k[2]) > 0 =>
                 /\ folded'[<<k[1], b.name>>] = Append(hist, Val(b.duration))
                 /\ p.stats[b.name].count = Len(hist) + 1
                 /\ k[2] \notin DOMAIN p.activeBlocksById
                 /\ b.name \in DOMAIN p.activeBlocksByName
                       => p.activeBlocksByName[b.name] # k[2]
                 /\ NewEmits = Emit(Emit(<<>>, k[1], "warning", k[2]), k[1], "end", k[2])
                 /\ last'.result = RetStats(k[1], b.name)
                 /\ p.warnings = PushShift(simpleProfiler[k[1]].warnings, LimitExceeded(b))
                 /\ p.events = PushShift(simpleProfiler[k[1]].events, EndEvent(b))]_vars

\* end(name) has just returned the aggregate for a block that breached
C13_Witness ==
    /\ last.op = "end" /\ last.result.kind = "stats"
    /\ Filter(simpleProfiler["n1"].warnings) # <<>>
    /\ simpleProfiler["n1"].events[BufferSize].type = "end"
    /\ simpleProfiler["n1"].events[BufferSize].duration = Some(1)
    /\ simpleProfiler["n1"].activeBlocksById = <<>>
\* the block a wrap or wrapped call of the step began on the enabled registry
BegunNow == <<last'.ns, simpleProfiler[last'.ns].idCounter + 1>>

\* the count of name in ns, 0 while the aggregate does not exist
CountOf(profilers, ns, name) ==
    IF name \in DOMAIN profilers[ns].stats THEN profilers[ns].stats[name].count ELSE 0

\* C14: on the enabled registry a call of wrap(fn, name) for a synchronous fn
\* calls fn once with the caller's this and arguments, returns what fn
\* returned, emits and records one begin and one end for name, adds 1 to the
\* count of name and leaves no block active.
C14_WrapSync ==
    [][(last'.op = "wrapped" /\ wrapped'.call.fn = "returns" /\ isEnabled) =>
          LET ns == last'.ns
              name == last'.ref.name
              id == BegunNow[2]
              block == blocks'[BegunNow]
          IN  /\ wrapped'.applied =
                    <<[self |-> wrapped'.call.self, arg |-> wrapped'.call.arg]>>
              /\ last'.result = RetValue(FnReturn(wrapped'.call.self, wrapped'.call.arg))
              /\ NewEmits = Emit(Emit(<<>>, ns, "begin", id), ns, "end", id)
              /\ block.name = name
              /\ simpleProfiler'[ns].events =
                    PushShift(PushShift(simpleProfiler[ns].events, BeginEvent(block)),
                              EndEvent(block))
              /\ CountOf(simpleProfiler', ns, name) = CountOf(simpleProfiler, ns, name) + 1
              /\ simpleProfiler'[ns].activeBlocksById = simpleProfiler[ns].activeBlocksById
       ]_vars

\* a wrapped synchronous call has just returned 7 on the enabled registry, in
\* a namespace that had timed a block before
C14_Witness ==
    /\ isEnabled
    /\ last.op = "wrapped" /\ wrapped.call.fn = "returns"
    /\ last.result = RetValue(7)
    /\ CountOf(simpleProfiler, last.ns, last.ref.name) >= 2

\* C15: when the wrapped callable throws, or the promise it returned or that
\* was passed to wrap rejects, the block begun for it is ended in that step:
\* one 'end' event, one sample folded, the block out of the by-id index; a
\* thrown error reaches the caller.
C15_FailureStillEnds ==
    [][/\ (last'.op = "wrapped" /\ wrapped'.call.fn = "throws" /\ isEnabled) =>
             /\ last'.result.kind = "thrown"
             /\ EmitsOf("local", "end", BegunNow[2]) = 1
             /\ BegunNow[2] \notin DOMAIN simpleProfiler'[last'.ns].activeBlocksById
             /\ CountOf(simpleProfiler', last'.ns, last'.ref.name)
                   = CountOf(simpleProfiler, last'.ns, last'.ref.name) + 1
       /\ (/\ last'.op = "reject"
           /\ wrapped.promises[last'.ref.id].then
           /\ wrapped.promises[last'.ref.id].id # DisabledBlockId) =>
             LET pr == wrapped.promises[last'.ref.id]
             IN  /\ EmitsOf("local", "end", pr.id) = 1
                 /\ pr.id \notin DOMAIN simpleProfiler'[pr.ns].activeBlocksById
       ]_vars

\* the promises wrap chained a block of the enabled registry on
Chained == {pid \in DOMAIN wrapped.promises :
               wrapped.promises[pid].then /\ wrapped.promises[pid].id # DisabledBlockId}

\* how many 'end' events of block <<ns, id>> the namespace's listeners got
EndsOf(ns, id) ==
    Cardinality({i \in DOMAIN emitted :
                    /\ emitted[i].tier = "local" /\ emitted[i].type = "end"
                    /\ emitted[i].ns = ns /\ emitted[i].id = id})

C17_WrapScalar ==
    [][(last'.op = "wrap" /\ last'.result.kind = "value") =>
          /\ last'.result = RetValue(wrapped'.call.arg)
          /\ UNCHANGED <<Profiling, isEnabled, staticRef>>
          /\ wrapped'.promises = wrapped.promises /\ wrapped'.own = wrapped.own]_vars

\* wrap has just returned the scalar 123 on the enabled registry of a
\* namespace that has begun blocks
C17_Witness ==
    /\ isEnabled
    /\ last.op = "wrap" /\ last.result = RetValue(123)
    /\ simpleProfiler[last.ns].idCounter > 0

\* C18: making a function by wrappedEnd() or wrappedEndError() changes
\* nothing; each call f(x) of such a function runs end() once on its block
\* (one sample folded, endedOn set, one 'end' event if the block was begun
\* by begin) and then returns x, or throws x for wrappedEndError.
C18_WrappedEnd ==
    [][/\ last'.op \in {"wrappedEnd", "wrappedEndError"} =>
             /\ last'.result = RetFunction
             /\ UNCHANGED <<Profiling, isEnabled, staticRef>>
       /\ last'.op = "f" =>
             LET k == <<last'.ref.ns, last'.ref.id>>
                 name == blocks[k].name
             IN  /\ blocks'[k].endedOn # Undefined
                 /\ folded'[<<k[1], name>>]
                       = Append(folded[<<k[1], name>>], Val(blocks'[k].duration))
                 /\ k[2] # DisabledBlockId => NewEmits = Emit(<<>>, k[1], "end", k[2])
                 /\ last'.result = (IF wrapped'.call.fn = "wrappedEnd"
                                     THEN RetValue(wrapped'.call.arg)
                                     ELSE RetThrown(wrapped'.call.arg))]_vars

\* a function of wrappedEndError has just ended its block and thrown its
\* argument while another block is active
C18_Witness ==
    /\ last.op = "f" /\ wrapped.call.fn = "wrappedEndError"
    /\ last.result = RetThrown(3)
    /\ IsBlock(<<last.ref.ns, last.ref.id>>) /\ Ended(<<last.ref.ns, last.ref.id>>)
    /\ \E k \in BlocksOf(last.ref.ns) : Active(k)
\* the events of the given types that namespace ns has recorded, in the
\* order of the calls that made them
Recorded(ns, types) ==
    SelectSeq(emitted, LAMBDA e : e.tier = "local" /\ e.ns = ns /\ e.type \in types)

\* the last n elements of s
LastN(s, n) == IF Len(s) <= n THEN s ELSE SubSeq(s, Len(s) - n + 1, Len(s))

\* C19: for every block the 'begin' event is emitted, to each tier, before
\* any 'end' event of it, and getEvents() lists the begin and end events of
\* the namespace in the order of the calls that made them.
C19_BeginBeforeEndFifo ==
    /\ \A i \in DOMAIN emitted :
          emitted[i].type = "end" =>
             \E j \in 1..(i - 1) :
                /\ emitted[j].type = "begin"
                /\ emitted[j].tier = emitted[i].tier
                /\ emitted[j].ns = emitted[i].ns
                /\ emitted[j].id = emitted[i].id
    /\ \A ns \in Registered :
          LET rec == LastN(Recorded(ns, {"begin", "end"}), BufferSize)
              buf == Filter(simpleProfiler[ns].events)
          IN  /\ Len(buf) = Len(rec)
              /\ \A i \in DOMAIN buf :
                    /\ buf[i].type = rec[i].type
                    /\ buf[i].name = blocks[<<ns, rec[i].id>>].name

\* blocks a and b overlapped: begin a, begin b, end a were recorded
C19_Witness ==
    /\ "n1" \in Registered
    /\ LET buf == Filter(simpleProfiler["n1"].events)
       IN  /\ Len(buf) = 3
           /\ buf[1].type = "begin" /\ buf[1].name = "a"
           /\ buf[2].type = "begin" /\ buf[2].name = "b"
           /\ buf[3].type = "end" /\ buf[3].name = "a"

\* the i-th event namespace ns recorded for blocks of name: a begin, or the
\* end that folded the duration of the same rank
EventAt(ns, name, i) ==
    LET rec == Recorded(ns, {"begin", "end"})
        rank == Cardinality({j \in 1..i : rec[j].type = "end"})
    IN  IF rec[i].type = "begin"
        THEN [type |-> "begin", name |-> name, duration |-> Undefined]
        ELSE [type |-> "end", name |-> name,
              duration |-> Some(folded[<<ns, name>>][rank])]

C21_IdsIncrease ==
    /\ [](\A k \in DOMAIN blocks :
             /\ blocks[k].id = k[2]
             /\ IsBlock(k) => k[2] >= 0 /\ k[2] <= simpleProfiler[k[1]].idCounter)
    /\ [][(last'.op = "begin" /\ isEnabled) =>
              /\ last'.result.id >= 0
              /\ \A k \in BlocksOf(last'.ns) : k[2] < last'.result.id
              /\ {k \in DOMAIN blocks' : k[1] = last'.ns /\ k[2] # DisabledBlockId}
                    = BlocksOf(last'.ns) \cup {<<last'.ns, last'.result.id>>}
              /\ \A k \in BlocksOf(last'.ns) : blocks'[k] = blocks[k]]_vars

\* begin has just handed out id 2 after block 1 has ended
C21_Witness ==
    /\ last.op = "begin" /\ last.result.id = 2
    /\ IsBlock(<<last.ns, 1>>) /\ Ended(<<last.ns, 1>>)

\* C22: every begin, end and warning event reaches the namespace's own
\* listeners and then, as the next emit the library makes, the process-wide
\* emitter, with the namespace's name; once each.
C22_LocalThenGlobal ==
    /\ Len(emitted) % 2 = 0
    /\ \A i \in DOMAIN emitted :
          i % 2 = 1 =>
             /\ emitted[i].tier = "local"
             /\ emitted[i + 1] = [emitted[i] EXCEPT !.tier = "global"]
             /\ emitted[i].ns \in Registered
             /\ emitted[i].type \in {"begin", "end", "warning"}
    /\ \A ns \in Registered : \A k \in BlocksOf(ns) :
          Cardinality({i \in DOMAIN emitted :
                          /\ emitted[i].type = "begin" /\ emitted[i].tier = "global"
                          /\ emitted[i].ns = ns /\ emitted[i].id = k[2]}) = 1

\* a warning has been emitted for a block begun after the preloaded ones
C22_Witness ==
    \E i \in DOMAIN emitted :
        /\ emitted[i].type = "warning" /\ emitted[i].tier = "global"
        /\ emitted[i].id > PreloadCount
        /\ emitted[Len(emitted)].type = "begin"

\* C23: no block begun by begin has a negative duration, and no aggregate of
\* such blocks a negative min or sum, whatever the clock read at end().
C23_DurationClamped ==
    /\ \A k \in DOMAIN blocks :
          (IsBlock(k) /\ Ended(k)) => Val(blocks[k].duration) >= 0
    /\ \A ns \in Registered :
          \A name \in DOMAIN simpleProfiler[ns].stats \ {disabledBlockName} :
             /\ simpleProfiler[ns].stats[name].min >= 0
             /\ simpleProfiler[ns].stats[name].sum >= 0

EmitIndices(k, type) ==
    {i \in DOMAIN emitted :
        /\ emitted[i].tier = "local" /\ emitted[i].type = type
        /\ emitted[i].ns = k[1] /\ emitted[i].id = k[2]}

\* no other block of k's name has been active while k has: each one began
\* before k did and every end of it came before k began
AloneInName(k) ==
    \A j \in BlocksOf(k[1]) \ {k} :
        blocks[j].name = blocks[k].name =>
           /\ j[2] < k[2]
           /\ EmitIndices(j, "end") # {}
           /\ \A i \in EmitIndices(j, "end") : \A b \in EmitIndices(k, "begin") : i < b

\* C25: an active block whose name no other block has shared while it was
\* active resolves by its id and by its name, whatever blocks of other names
\* began and ended meanwhile; an end() of a block leaves every active block
\* of another name as it is, in both indices, and leaves the aggregates of
\* the other names unchanged.
C25_DistinctNamesOverlap ==
    /\ [](\A k \in DOMAIN blocks :
             (Active(k) /\ AloneInName(k)) =>
                /\ getBlock(simpleProfiler[k[1]], IdRef(k[2])) = RetBlock(k[1], k[2])
                /\ getBlock(simpleProfiler[k[1]], NameRef(blocks[k].name))
                      = RetBlock(k[1], k[2]))
    /\ [][\A e \in EndedNow : \A o \in BlocksOf(e[1]) :
              blocks[o].name # blocks[e].name =>
                 LET p == simpleProfiler[e[1]]
                     q == simpleProfiler'[e[1]]
                     name == blocks[o].name
                 IN  /\ blocks'[o] = blocks[o]
                     /\ o[2] \in DOMAIN p.activeBlocksById
                           => o[2] \in DOMAIN q.activeBlocksById
                     /\ name \in DOMAIN p.activeBlocksByName
                           => /\ name \in DOMAIN q.activeBlocksByName
                              /\ q.activeBlocksByName[name] = p.activeBlocksByName[name]
                     /\ q.stats[name] = p.stats[name]]_vars

\* block a began, block b began inside it, a has ended and b is active
C25_Witness ==
    \E ka, kb \in BlocksOf("n1") :
        /\ blocks[ka].name = "a" /\ blocks[kb].name = "b"
        /\ ka[2] < kb[2]
        /\ Ended(ka) /\ Active(kb)
        /\ last.op \in {"end", "block.end"} /\ last.result = RetStats("n1", "a")

\* C26: a block begun on the enabled registry is in the by-id index for as
\* long as it has not ended; a step that does not run end() of that block
\* leaves its entry in place, and end() runs only in end calls of the caller.
C26_ActiveUntilOwnEnd ==
    /\ [](\A k \in DOMAIN blocks :
             Active(k) => /\ k[2] \in DOMAIN simpleProfiler[k[1]].activeBlocksById
                          /\ simpleProfiler[k[1]].activeBlocksById[k[2]] = k[2])
    /\ [][/\ \A k \in DOMAIN blocks :
                (/\ IsBlock(k)
                 /\ k[2] \in DOMAIN simpleProfiler[k[1]].activeBlocksById
                 /\ k \notin EndedNow)
                => k[2] \in DOMAIN simpleProfiler'[k[1]].activeBlocksById
          /\ EndedNow # {} => last'.op \in {"end", "block.end"}]_vars

\* a block is still active after another block has ended, the registry has
\* been disabled and the statistics dumped
C26_Witness ==
    /\ ~isEnabled
    /\ last.op = "dumpStats"
    /\ \E k1, k2 \in BlocksOf("n1") : Ended(k1) /\ Active(k2)

\* C27: begin leaves every existing aggregate as it is and creates the
\* aggregate of a new name with count 0; no step removes an aggregate from a
\* registered namespace, lowers its count, or changes it without raising
\* its count.
C27_AggregatesPersist ==
    [][\A ns \in Registered :
          LET old == simpleProfiler[ns].stats
              new == simpleProfiler'[ns].stats
          IN  /\ \A name \in DOMAIN old :
                    /\ name \in DOMAIN new
                    /\ new[name].count >= old[name].count
                    /\ new[name].count = old[name].count => new[name] = old[name]
                    /\ last'.op = "begin" => new[name] = old[name]
              /\ \A name \in DOMAIN new \ DOMAIN old :
                    /\ last'.op = "begin" /\ last'.ref.name = name
                    /\ new[name] = StatsDefaults(FALSE)]_vars

\* begin has just been called for a name whose aggregate holds a sample
C27_Witness ==
    /\ isEnabled
    /\ last.op = "begin" /\ last.result.id >= 2
    /\ simpleProfiler[last.ns].stats[last.ref.name].count >= 1

\* C28: getStats(name) returns the aggregate of name that end() of the
\* blocks of that name returns, getStats() the whole stats object of the
\* namespace, and a getStats call changes nothing.
C28_GetStats ==
    [][/\ last'.op = "getStats" =>
             /\ UNCHANGED <<Profiling, isEnabled, staticRef, wrapped>>
             /\ (last'.ref.t = "string"
                    /\ last'.ref.name \in DOMAIN simpleProfiler[last'.ns].stats)
                  => last'.result = RetStats(last'.ns, last'.ref.name)
             /\ last'.ref.t = "none" => last'.result = RetTable(last'.ns)
       /\ \A k \in EndedNow :
             /\ last'.result = RetStats(k[1], blocks[k].name)
             /\ blocks[k].name \in DOMAIN simpleProfiler'[k[1]].stats]_vars

\* getStats('a') has just returned the aggregate that holds a sample, while
\* a block of that name is active
C28_Witness ==
    /\ last.op = "getStats" /\ last.result = RetStats("n1", "a")
    /\ simpleProfiler["n1"].stats["a"].count >= 1
    /\ "a" \in DOMAIN simpleProfiler["n1"].activeBlocksByName

\* C29: dumpStats() of a namespace and Profiler.dumpStats() change nothing:
\* indices, aggregates, buffers, idCounter, blocks and the enabled flag.
C29_DumpStatsReadsOnly ==
    [][last'.op \in {"dumpStats", "Profiler.dumpStats"} =>
          UNCHANGED <<Profiling, isEnabled, staticRef, wrapped>>]_vars

\* Profiler.dumpStats() has just run on the enabled registry with a block
\* active and events recorded
C29_Witness ==
    /\ isEnabled
    /\ last.op = "Profiler.dumpStats"
    /\ "n1" \in Registered
    /\ simpleProfiler["n1"].activeBlocksById # <<>>
    /\ Len(dumpStats(simpleProfiler["n1"]).events) >= 2
    /\ dumpStats(simpleProfiler["n1"]).rows # {}

\* C30: when the listeners get the LimitExceeded warning of a block, the
\* block is in neither activeBlocksById nor activeBlocksByName.
C30_DeregisteredBeforeWarning ==
    [][\A k \in EndedNow :
          EmitsOf("local", "warning", k[2]) > 0 =>
             LET ended == EndOf(simpleProfiler[k[1]], emitted, blocks[k],
                                Val(blocks'[k].endedOn))
                 seen == Val(ended.atWarning)
             IN  /\ k[2] \notin DOMAIN seen.activeBlocksById
                 /\ blocks[k].name \in DOMAIN seen.activeBlocksByName
                       => seen.activeBlocksByName[blocks[k].name] # k[2]]_vars

\* C31: a step taken while the registry is disabled changes no aggregate of
\* a caller's block name and no buffer, and emits no event.
C31_DisabledChangesNothing ==
    [][~isEnabled =>
          /\ emitted' = emitted
          /\ \A ns \in Registered :
                LET p == simpleProfiler[ns]
                    q == simpleProfiler'[ns]
                IN  /\ q.events = p.events
                    /\ q.warnings = p.warnings
                    /\ \A name \in DOMAIN p.stats \ {disabledBlockName} :
                          q.stats[name] = p.stats[name]]_vars

\* C32: when blocks A then B of one name are active, B resolves by that name
\* and a step ends A but not B, B still resolves by that name afterwards.
C32_EndKeepsOthersNameEntry ==
    [][\A a \in EndedNow : \A b \in BlocksOf(a[1]) :
          (/\ a[2] < b[2]
           /\ Active(a) /\ Active(b)
           /\ b \notin EndedNow
           /\ blocks[a].name = blocks[b].name
           /\ getBlock(simpleProfiler[b[1]], NameRef(blocks[b].name))
                 = RetBlock(b[1], b[2]))
          => getBlock(simpleProfiler'[b[1]], NameRef(blocks[b].name))
                = RetBlock(b[1], b[2])]_vars

\* C33: every entry activeBlocksByName[n] is a block begun by begin whose
\* name is n and that activeBlocksById holds under its id; every entry of
\* activeBlocksById is a block begun by begin, held under its own id; the
\* disabledBlock is in neither index.
C33_IndicesAgree ==
    \A ns \in Registered :
        LET p == simpleProfiler[ns]
        IN  /\ \A n \in DOMAIN p.activeBlocksByName :
                  LET id == p.activeBlocksByName[n]
                  IN  /\ id # DisabledBlockId
                      /\ <<ns, id>> \in DOMAIN blocks
                      /\ blocks[<<ns, id>>].name = n
                      /\ id \in DOMAIN p.activeBlocksById
                      /\ p.activeBlocksById[id] = id
            /\ \A id \in DOMAIN p.activeBlocksById :
                  /\ id # DisabledBlockId
                  /\ <<ns, id>> \in DOMAIN blocks
                  /\ blocks[<<ns, id>>].id = id
                  /\ p.activeBlocksById[id] = id

\* of three blocks of one name the first has ended while the second was
\* active, and the third, begun afterwards, is the one the name resolves to
C33_Witness ==
    /\ "n1" \in Registered
    /\ IsBlock(<<"n1", 1>>) /\ Ended(<<"n1", 1>>)
    /\ DOMAIN simpleProfiler["n1"].activeBlocksById = {2, 3}
    /\ DOMAIN simpleProfiler["n1"].activeBlocksByName = {"a"}
    /\ simpleProfiler["n1"].activeBlocksByName["a"] = 3

\* C34: for every registered namespace, the tables the process-wide getters
\* hold for it are the tables of the registered instance.
C34_StaticViewsAreRegistered ==
    \A ns \in Registered : StaticTables(ns) = RetProfiler(ns)

\* C35: a begin or end call made on one namespace leaves every other
\* namespace's indices, idCounter, buffers and aggregates of callers' block
\* names as they are and emits no event of another namespace.
C35_NamespacesIsolated ==
    [][last'.op \in {"begin", "end"} =>
          \A other \in Registered \ {last'.ns} :
             LET p == simpleProfiler[other]
                 q == simpleProfiler'[other]
             IN  /\ q.activeBlocksById = p.activeBlocksById
                 /\ q.activeBlocksByName = p.activeBlocksByName
                 /\ q.idCounter = p.idCounter
                 /\ q.events = p.events
                 /\ q.warnings = p.warnings
                 /\ \A name \in DOMAIN p.stats \ {disabledBlockName} :
                       q.stats[name] = p.stats[name]
                 /\ \A i \in DOMAIN NewEmits : NewEmits[i].ns # other]_vars

\* C36: of the promises wrap has chained a block to, each fulfilled one has
\* had its block ended exactly once and taken out of the by-id index, each
\* other one still has its block active in the by-id index; the count of a
\* name is the number of its blocks that have ended; and a step that
\* resolves such a promise raises the count of its block's name by exactly 1.
C36_ConcurrentCompletions ==
    /\ [](/\ \A pid \in Chained :
                LET k == <<wrapped.promises[pid].ns, wrapped.promises[pid].id>>
                    byId == simpleProfiler[k[1]].activeBlocksById
                IN  IF wrapped.promises[pid].state = "fulfilled"
                    THEN /\ Ended(k)
                         /\ EndsOf(k[1], k[2]) = 1
                         /\ k[2] \notin DOMAIN byId
                    ELSE /\ ~Ended(k)
                         /\ k[2] \in DOMAIN byId
          /\ \A ns \in Registered :
                \A name \in DOMAIN simpleProfiler[ns].stats \ {disabledBlockName} :
                   simpleProfiler[ns].stats[name].count
                      = Cardinality({k \in BlocksOf(ns) :
                                        Ended(k) /\ blocks[k].name = name}))
    /\ [][(last'.op = "resolve" /\ last'.ref.id \in Chained) =>
             LET pr == wrapped.promises[last'.ref.id]
                 name == blocks[<<pr.ns, pr.id>>].name
             IN  CountOf(simpleProfiler', pr.ns, name)
                    = CountOf(simpleProfiler, pr.ns, name) + 1]_vars

\* two promises of one name were in flight at once and the one wrapped last
\* was fulfilled first; both have been fulfilled
C36_Witness ==
    \E p1, p2 \in Chained :
        LET k1 == <<wrapped.promises[p1].ns, wrapped.promises[p1].id>>
            k2 == <<wrapped.promises[p2].ns, wrapped.promises[p2].id>>
        IN  /\ p1 < p2
            /\ wrapped.promises[p1].state = "fulfilled"
            /\ wrapped.promises[p2].state = "fulfilled"
            /\ k1[1] = k2[1] /\ blocks[k1].name = blocks[k2].name
            /\ \A i \in EmitIndices(k2, "end") : \A j \in EmitIndices(k1, "end") : i < j
            /\ simpleProfiler[k1[1]].stats[blocks[k1].name].count = 2

\* C37: end(ref) on a disabled registry returns undefined and changes
\* nothing; end(id) on an enabled registry, for an active block's id, ends
\* that block, takes it out of the by-id index, adds 1 to the count of its
\* name and returns its aggregate.
C37_DisabledEndHasNoEffect ==
    [][last'.op = "end" =>
          /\ ~isEnabled =>
                /\ UNCHANGED <<Profiling, isEnabled, staticRef>>
                /\ last'.result = RetUndefined
          /\ \A k \in BlocksOf(last'.ns) :
                (isEnabled /\ Active(k) /\ last'.ref = IdRef(k[2])) =>
                   /\ last'.result = RetStats(k[1], blocks[k].name)
                   /\ blocks'[k].endedOn # Undefined
                   /\ k[2] \notin DOMAIN simpleProfiler'[k[1]].activeBlocksById
                   /\ CountOf(simpleProfiler', k[1], blocks[k].name)
                         = CountOf(simpleProfiler, k[1], blocks[k].name) + 1]_vars

\* end has just been called, on the disabled registry, with the id of a block
\* that is active and in both indices
C37_Witness ==
    /\ ~isEnabled
    /\ last.op = "end" /\ last.ref.t = "number"
    /\ Active(<<last.ns, last.ref.id>>)
    /\ last.ref.id \in DOMAIN simpleProfiler[last.ns].activeBlocksById
    /\ blocks[<<last.ns, last.ref.id>>].name
          \in DOMAIN simpleProfiler[last.ns].activeBlocksByName

\* C38: the aggregate of every name a block was begun under is listed by
\* dumpStats, and its count is the number of ends of the blocks begun under
\* that name.
C38_UserNamesListed ==
    \A ns \in Registered : \A k \in BlocksOf(ns) :
        LET name == blocks[k].name
            p == simpleProfiler[ns]
        IN  /\ name \in dumpStats(p).rows
            /\ p.stats[name].count
                  = Cardinality({i \in DOMAIN emitted :
                                    /\ emitted[i].tier = "local"
                                    /\ emitted[i].type = "end"
                                    /\ emitted[i].ns = ns
                                    /\ blocks[<<ns, emitted[i].id>>].name = name})
====
